---- MODULE Spec2Model ----
(***************************************************************************)
(* Telegram OTP bot (FOZI.py, Foziboss.py): the portal poll loop, the      *)
(* time-windowed deduplication cache, the session client and the OTP       *)
(* extraction, as state machines.                                          *)
(*                                                                         *)
(* Text is a sequence of one-character strings.  Time is in minutes and    *)
(* the clock is read every half expiry window.                             *)
(***************************************************************************)
EXTENDS Integers, Sequences, FiniteSets, TLC

(***************************************************************************)
(* Bounds of the model.                                                    *)
(***************************************************************************)
\* loop threads that can be alive at once
MaxLoops == 2
\* records on one fetched portal page
MaxBatch == 2
\* half windows the clock advances beside the running loop
MaxTime == 3
\* half windows the clock advances in the cache specification
MaxFilterTime == 5
\* half windows the clock advances in the persistence specification
MaxPersistTime == 1
\* pieces concatenated into one SMS text
MaxPieces == 3
\* rows on one fetched page
MaxRows == 3
\* pieces a phone text is put together from
MaxPhonePieces == 3
\* records in one list given to the formatter
MaxList == 3

(***************************************************************************)
(* Program constants.                                                      *)
(***************************************************************************)
\* OTPFilter(expire_minutes=30), in minutes
expire_minutes == 30
\* the step of the clock, in minutes
HalfWindow == expire_minutes \div 2
\* time.sleep(30) after a normal cycle, time.sleep(60) in the except branch
NormalSleep == 30
ErrorSleep == 60

VARIABLES
    \* OTPFilter
    cache,          \* self.cache: key -> entry (timestamp, otp, phone, service)
    now,            \* datetime.now(), in minutes
    call,           \* the last call on the filter made by the sequential caller
    prev,           \* the call before it
    cache_file,     \* otp_cache.json on disk
    disk,           \* whether writing the file works: "ok", "readonly", "full"
    saved,          \* the cache as the last successful _save_cache wrote it
    \* IVASMSScraper
    is_logged_in,   \* self.is_logged_in
    \* OTPBotController
    scraper,        \* self.scraper is not None
    telegram_bot,   \* self.telegram_bot is not None
    is_running,     \* self.is_running
    ctx,            \* execution contexts: 0 the manual check, 1.. the loop threads
    otp_log,        \* rows of the OTPLog table
    monitor_thread, \* self.monitor_thread: the loop thread created last, 0 for none
    reply,          \* what the last start_monitoring / stop_monitoring returned
    lastNovel,      \* key -> minute at which it was last returned as novel
    \* extract_otp_from_text
    text,           \* the SMS text
    otp,            \* the extracted code
    \* _extract_messages
    rows,           \* soup.find_all('tr'): each row the texts of its td cells
    page_messages,       \* the list _extract_messages returned
    \* /api/status
    bot_controller, \* bot_controller is not None
    stats_ctx,      \* the status request inside get_stats
    stats_reply,    \* what the last /api/status request got
    \* utility functions
    phone_text,     \* the phone given to clean_phone_number
    phone_out,      \* what clean_phone_number returned
    format_list,    \* the otp_list given to format_multiple_otps
    format_out      \* what format_multiple_otps returned

filterVars == <<cache, now, call, prev, cache_file, disk, saved>>
ctlVars == <<is_logged_in, scraper, telegram_bot, is_running, ctx, otp_log,
             monitor_thread, reply, lastNovel>>
extractVars == <<text, otp, rows, page_messages>>
statusVars == <<bot_controller, stats_ctx, stats_reply>>
utilVars == <<phone_text, phone_out, format_list, format_out>>
vars == <<cache, now, call, prev, cache_file, disk, saved, is_logged_in, scraper, telegram_bot, is_running,
          ctx, otp_log, monitor_thread, reply, lastNovel, text, otp, rows, page_messages,
          bot_controller, stats_ctx, stats_reply, phone_text, phone_out, format_list,
          format_out>>

None == "None"

(***************************************************************************)
(* Records.  A record is what _extract_messages appends: otp, phone,       *)
(* service (timestamp and raw_message play no part in the cache key).      *)
(***************************************************************************)
RecA == [otp |-> <<"1", "2", "3", "4">>, phone |-> <<"+", "8", "8", "1">>,
         service |-> <<"G", "o", "o", "g", "l", "e">>]
RecB == [otp |-> <<"9", "8", "7", "6", "5", "4">>, phone |-> <<"+", "8", "8", "1">>,
         service |-> <<"G", "o", "o", "g", "l", "e">>]
Records == {RecA, RecB}

RECURSIVE SeqsUpTo(_, _)
SeqsUpTo(S, n) ==
    IF n = 0 THEN {<<>>}
    ELSE LET shorter == SeqsUpTo(S, n - 1)
         IN  shorter \cup {Append(s, x) : s \in {q \in shorter : Len(q) = n - 1}, x \in S}

\* the record lists a fetched page can extract to
Batches == SeqsUpTo(Records, MaxBatch)

(***************************************************************************)
(* OTPFilter, as operators on the cache c at time t.                       *)
(***************************************************************************)
\* f"{otp}_{phone}_{service}"
GenerateKey(r) == r.otp \o <<"_">> \o r.phone \o <<"_">> \o r.service

ExpiredKeysLate(c, t) == {k \in DOMAIN c : t - c[k].timestamp > 2 * expire_minutes}

\* the keys _cleanup_expired collects in expired_keys: an entry without
\* 'timestamp' raises KeyError, which collects its key as well
ExpiredKeys(c, t) ==
    {k \in DOMAIN c :
        \/ "timestamp" \notin DOMAIN c[k]
        \/ t - c[k].timestamp > expire_minutes}

Without(c, keys) == [k \in (DOMAIN c) \ keys |-> c[k]]

CleanupSkipped(c, t) == c

\* _cleanup_expired run without interruption
CleanupExpired(c, t) == Without(c, ExpiredKeys(c, t))

\* is_duplicate's answer, given the cache its cleanup left
InCache(c, r) == GenerateKey(r) \in DOMAIN c

NewEntry(r, t) == [timestamp |-> t, otp |-> r.otp, phone |-> r.phone, service |-> r.service]

AddOtpNoStore(c, r, t) == c

\* add_otp: self.cache[key] = {...}
AddOtp(c, r, t) ==
    LET key == GenerateKey(r)
    IN  [k \in (DOMAIN c) \cup {key} |-> IF k = key THEN NewEntry(r, t) ELSE c[k]]

EmptyCache == [k \in {} |-> None]

\* otp_cache.json: not there, holding a cache, or cut short by a write that
\* failed after open(self.cache_file, 'w') had truncated it
Absent == [state |-> "absent", content |-> EmptyCache]
Torn == [state |-> "torn", content |-> EmptyCache]
Written(c) == [state |-> "written", content |-> c]

DiskStates == {"ok", "readonly", "full"}

\* _load_cache: json.load(f), or {} with no file or on JSONDecodeError
LoadCache(f) == IF f.state = "written" THEN f.content ELSE EmptyCache

\* _save_cache: the file after open(self.cache_file, 'w') and json.dump.
\* On a read-only disk open fails and the file stays; on a full disk open
\* truncates the file and the dump fails.
SaveCache(f, c, d) ==
    CASE d = "ok" -> Written(c)
      [] d = "readonly" -> f
      [] d = "full" -> Torn

SaveRaisesOnFault(d) == d # "ok"

\* _save_cache: except Exception logs the error, nothing is raised
SaveRaises(d) == FALSE

\* the cache on disk as the last successful write left it
Persisted(s, c, d) == IF d = "ok" THEN c ELSE s

AfterDuplicateRefreshed(c, r, t) == AddOtp(c, r, t)

\* the cache after is_duplicate answered True: filter_new_otps skips the
\* record and writes nothing
AfterDuplicate(c, r, t) == c

\* filter_new_otps run without interruption on disk d: <<cache, new_otps,
\* raised>>, raised when add_otp let an exception out
RECURSIVE FilterNewOtps(_, _, _, _, _)
FilterNewOtps(c, otp_list, new_otps, t, d) ==
    IF otp_list = <<>> THEN <<c, new_otps, FALSE>>
    ELSE LET r == Head(otp_list)
             cleaned == CleanupExpired(c, t)
         IN  IF InCache(cleaned, r)
             THEN FilterNewOtps(AfterDuplicate(cleaned, r, t), Tail(otp_list), new_otps, t, d)
             ELSE IF SaveRaises(d)
                  THEN <<AddOtp(cleaned, r, t), Append(new_otps, r), TRUE>>
                  ELSE FilterNewOtps(AddOtp(cleaned, r, t), Tail(otp_list),
                                     Append(new_otps, r), t, d)

(***************************************************************************)
(* The cache used by one sequential caller.  Every action is one whole     *)
(* call of an OTPFilter method; call and prev keep the last two calls with *)
(* the cache they found and what they returned.                            *)
(***************************************************************************)
\* saved: what became of the call's last _save_cache ("none" without one);
\* raised: the call let an exception out
NoCall == [op |-> None, arg |-> <<>>, at |-> 0, before |-> EmptyCache, result |-> None,
           saved |-> "none", raised |-> FALSE]

SaveOutcome(d) == IF d = "ok" THEN "ok" ELSE "failed"

\* filter_new_otps(otp_list)
FilterNewOtpsCall(otp_list) ==
    LET out == FilterNewOtps(cache, otp_list, <<>>, now, disk)
        admitted == out[2] # <<>>
    IN  /\ cache' = out[1]
        /\ cache_file' = IF admitted THEN SaveCache(cache_file, out[1], disk)
                          ELSE cache_file
        /\ saved' = IF admitted THEN Persisted(saved, out[1], disk) ELSE saved
        /\ call' = [op |-> "filter_new_otps", arg |-> otp_list, at |-> now,
                    before |-> cache, result |-> out[2],
                    saved |-> IF admitted THEN SaveOutcome(disk) ELSE "none",
                    raised |-> out[3]]
        /\ prev' = call
        /\ UNCHANGED <<now, disk, ctlVars, extractVars, statusVars, utilVars>>

\* is_duplicate(otp_data)
IsDuplicateCall(r) ==
    LET cleaned == CleanupExpired(cache, now)
    IN  /\ cache' = cleaned
        /\ call' = [op |-> "is_duplicate", arg |-> <<r>>, at |-> now,
                    before |-> cache, result |-> InCache(cleaned, r),
                    saved |-> "none", raised |-> FALSE]
        /\ prev' = call
        /\ UNCHANGED <<now, cache_file, disk, saved, ctlVars, extractVars, statusVars, utilVars>>

\* get_cache_stats()['total_cached']
GetCacheStatsCall ==
    LET cleaned == CleanupExpired(cache, now)
    IN  /\ cache' = cleaned
        /\ call' = [op |-> "get_cache_stats", arg |-> <<>>, at |-> now,
                    before |-> cache, result |-> Cardinality(DOMAIN cleaned),
                    saved |-> "none", raised |-> FALSE]
        /\ prev' = call
        /\ UNCHANGED <<now, cache_file, disk, saved, ctlVars, extractVars, statusVars, utilVars>>

ClearedCacheKeeps(c) == c

\* clear_cache: self.cache = {}
ClearedCache(c) == EmptyCache

\* clear_cache()
ClearCacheCall ==
    /\ cache' = ClearedCache(cache)
    /\ cache_file' = SaveCache(cache_file, cache', disk)
    /\ saved' = Persisted(saved, cache', disk)
    /\ call' = [op |-> "clear_cache", arg |-> <<>>, at |-> now,
                before |-> cache, result |-> "Cache cleared successfully",
                saved |-> SaveOutcome(disk), raised |-> SaveRaises(disk)]
    /\ prev' = call
    /\ UNCHANGED <<now, disk, ctlVars, extractVars, statusVars, utilVars>>

\* the process ends and is started again: OTPFilter.__init__ loads the file
RestartCall ==
    /\ cache' = LoadCache(cache_file)
    /\ call' = [op |-> "restart", arg |-> <<>>, at |-> now,
                before |-> cache, result |-> None,
                saved |-> "none", raised |-> FALSE]
    /\ prev' = call
    /\ UNCHANGED <<now, cache_file, disk, saved, ctlVars, extractVars, statusVars, utilVars>>

\* the disk fills up, goes read-only, or works again
DiskFault ==
    /\ \E d \in DiskStates \ {disk} : disk' = d
    /\ UNCHANGED <<cache, now, call, prev, cache_file, saved, ctlVars, extractVars, statusVars, utilVars>>

\* the clock advances between calls
FilterTick ==
    /\ now < MaxFilterTime * HalfWindow
    /\ now' = now + HalfWindow
    /\ UNCHANGED <<cache, call, prev, cache_file, disk, saved, ctlVars, extractVars, statusVars, utilVars>>

\* OTPFilter() with no cache file yet
FilterInit ==
    /\ cache_file = Absent
    /\ cache = LoadCache(cache_file)
    /\ now = 0
    /\ call = NoCall
    /\ prev = NoCall
    /\ disk = "ok"
    /\ saved = EmptyCache

FilterNext ==
    \/ \E otp_list \in Batches : FilterNewOtpsCall(otp_list)
    \/ \E r \in Records : IsDuplicateCall(r)
    \/ GetCacheStatsCall
    \/ ClearCacheCall
    \/ FilterTick

\* an otp_cache.json left by hand or by another version: one entry without
\* 'timestamp', one written at minute 0
HandEdited ==
    [k \in {GenerateKey(RecA), GenerateKey(RecB)} |->
        IF k = GenerateKey(RecA)
        THEN [otp |-> RecA.otp, phone |-> RecA.phone, service |-> RecA.service]
        ELSE NewEntry(RecB, 0)]

\* OTPFilter() with no cache file or with the file above
LoadedInit ==
    /\ cache_file \in {Absent, Written(HandEdited)}
    /\ cache = LoadCache(cache_file)
    /\ now = 0
    /\ call = NoCall
    /\ prev = NoCall
    /\ disk = "ok"
    /\ saved = cache

\* the clock advances between calls, in the persistence specification
PersistTick ==
    /\ now < MaxPersistTime * HalfWindow
    /\ now' = now + HalfWindow
    /\ UNCHANGED <<cache, call, prev, cache_file, disk, saved, ctlVars, extractVars, statusVars, utilVars>>

PersistNext ==
    \/ \E otp_list \in Batches : FilterNewOtpsCall(otp_list)
    \/ \E r \in Records : IsDuplicateCall(r)
    \/ GetCacheStatsCall
    \/ ClearCacheCall
    \/ PersistTick
    \/ RestartCall
    \/ DiskFault

(***************************************************************************)
(* OTPBotController with its loop threads and the manual check, which run  *)
(* on the same OTPFilter and IVASMSScraper without any lock.  A context's  *)
(* steps are the points where another thread can run in between.           *)
(***************************************************************************)
Manual == 0
Loops == 1 .. MaxLoops
Ctx == {Manual} \cup Loops

Keys == {GenerateKey(r) : r \in Records}

\* what fetch_messages met: the first three return [] without a page
FetchFailures == {"auth_failed", "non200", "error"}
FetchOutcomes == FetchFailures \cup {"login_page", "ok"}

\* logins: the login() calls of the cycle's fetch, kept until the filter
\* starts; page: whether the fetch requested the portal page; sends: the
\* send calls of the cycle
Idle == [pc |-> "none", fetched |-> None, todo |-> <<>>, new_otps |-> <<>>,
         expired_keys |-> {}, logged |-> FALSE, sent |-> None, raised |-> FALSE,
         wait |-> 0, logins |-> 0, page |-> FALSE, sends |-> <<>>]

Alive(t) == ctx[t].pc \notin {"none", "done"}

FreeSlots == {t \in Loops : ~Alive(t)}

Min(S) == CHOOSE x \in S : \A y \in S : x <= y

AlreadyRunningNever == FALSE

\* start_monitoring's first test: if self.is_running
AlreadyRunning == is_running

ScraperMissingNever == FALSE

\* start_monitoring's second test: if not self.scraper
ScraperMissing == ~scraper

\* start_monitoring()
StartMonitoring ==
    \/ /\ AlreadyRunning
       /\ reply' = "Monitoring is already running"
       /\ UNCHANGED <<filterVars, extractVars, statusVars, utilVars, is_logged_in, scraper, telegram_bot,
                      is_running, ctx, otp_log, monitor_thread, lastNovel>>
    \/ /\ ~AlreadyRunning
       /\ ScraperMissing
       /\ reply' = "Error: IVASMS scraper not initialized"
       /\ UNCHANGED <<filterVars, extractVars, statusVars, utilVars, is_logged_in, scraper, telegram_bot,
                      is_running, ctx, otp_log, monitor_thread, lastNovel>>
    \/ /\ ~AlreadyRunning
       /\ ~ScraperMissing
       /\ ~telegram_bot
       /\ reply' = "Error: Telegram bot not initialized"
       /\ UNCHANGED <<filterVars, extractVars, statusVars, utilVars, is_logged_in, scraper, telegram_bot,
                      is_running, ctx, otp_log, monitor_thread, lastNovel>>
    \/ /\ ~AlreadyRunning
       /\ ~ScraperMissing
       /\ telegram_bot
       /\ \E t \in FreeSlots :
            /\ t = Min(FreeSlots)
            /\ is_running' = TRUE
            /\ monitor_thread' = t
            /\ ctx' = [ctx EXCEPT ![t] = [Idle EXCEPT !.pc = "top"]]
            /\ reply' = "OTP monitoring started successfully"
       /\ UNCHANGED <<filterVars, extractVars, statusVars, utilVars, is_logged_in, scraper, telegram_bot,
                      otp_log, lastNovel>>
    \/ \* Thread.start() raises: the except branch puts the flag back
       /\ ~AlreadyRunning
       /\ ~ScraperMissing
       /\ telegram_bot
       /\ is_running' = FALSE
       /\ monitor_thread' = 0
       /\ reply' = "Error starting monitoring"
       /\ UNCHANGED <<filterVars, extractVars, statusVars, utilVars, is_logged_in, scraper, telegram_bot,
                      ctx, otp_log, lastNovel>>

\* stop_monitoring()
StopMonitoring ==
    /\ is_running' = FALSE
    /\ reply' = "OTP monitoring stopped"
    /\ UNCHANGED <<filterVars, extractVars, statusVars, utilVars, is_logged_in, scraper, telegram_bot,
                   ctx, otp_log, monitor_thread, lastNovel>>

LoopConditionAlways(t) == TRUE

\* while self.is_running: the loop condition, evaluated by thread t
LoopCondition(t) == is_running

\* _monitor_loop: the top of an iteration
LoopTop(t) ==
    /\ ctx[t].pc = "top"
    /\ ctx' = [ctx EXCEPT ![t].pc = IF LoopCondition(t) THEN "fetch" ELSE "done"]
    /\ UNCHANGED <<filterVars, extractVars, statusVars, utilVars, is_logged_in, scraper, telegram_bot,
                   is_running, otp_log, monitor_thread, reply, lastNovel>>

\* where a context goes once filter_new_otps has returned new_otps
AfterFilter(c, new_otps) ==
    IF new_otps # <<>> THEN "log" ELSE IF c = Manual THEN "return" ELSE "stats"

\* where a context goes with the list fetch_messages returned
AfterFetch(c, messages) ==
    IF messages # <<>> THEN "cleanup" ELSE AfterFilter(c, <<>>)

\* fetch_messages: if not self.is_logged_in: if not self.login(): return []
LoginAttempts(logged_in) == IF logged_in THEN 0 ELSE 1

\* fetch_messages: the page is requested unless the login failed
PageRequested(outcome) == outcome # "auth_failed"

SessionAlwaysLoggedIn(logged_in, outcome) == TRUE

SessionDroppedOnFailure(logged_in, outcome) == outcome \notin {"auth_failed", "non200", "error"}

\* self.is_logged_in after fetch_messages: login() sets it on success and
\* nothing ever clears it
SessionAfterFetch(logged_in, outcome) == IF outcome = "auth_failed" THEN logged_in ELSE TRUE

\* IVASMSScraper.fetch_messages(): login when logged out, then one GET of
\* the portal page.  requests follows a redirect to the login page, so an
\* expired session shows as a 200 page with no rows ("login_page").
FetchMessages(c) ==
    /\ ctx[c].pc = "fetch"
    /\ \E outcome \in FetchOutcomes, messages \in Batches :
         /\ outcome = "auth_failed" => ~is_logged_in
         /\ outcome # "ok" => messages = <<>>
         /\ is_logged_in' = SessionAfterFetch(is_logged_in, outcome)
         /\ ctx' = [ctx EXCEPT ![c].fetched = outcome,
                               ![c].logins = LoginAttempts(is_logged_in),
                               ![c].page = PageRequested(outcome),
                               ![c].todo = messages,
                               ![c].pc = AfterFetch(c, messages)]
    /\ UNCHANGED <<filterVars, extractVars, statusVars, utilVars, scraper, telegram_bot, is_running,
                   otp_log, monitor_thread, reply, lastNovel>>

\* the rest of is_duplicate, once _cleanup_expired has left cache c: the
\* head of todo is dropped as a duplicate or goes on to add_otp
Checked(c, cleaned) ==
    IF InCache(cleaned, Head(ctx[c].todo))
    THEN [ctx[c] EXCEPT !.todo = Tail(@), !.expired_keys = {},
                        !.pc = IF Tail(ctx[c].todo) # <<>> THEN "cleanup"
                               ELSE AfterFilter(c, ctx[c].new_otps)]
    ELSE [ctx[c] EXCEPT !.expired_keys = {}, !.pc = "add"]

\* is_duplicate: the first loop of _cleanup_expired collects expired_keys;
\* with none to delete the membership test follows at once
CleanupScan(c) ==
    /\ ctx[c].pc = "cleanup"
    /\ LET expired == ExpiredKeys(cache, now)
           after == IF expired = {} THEN Checked(c, cache)
                    ELSE [ctx[c] EXCEPT !.expired_keys = expired, !.pc = "delete"]
       IN  ctx' = [ctx EXCEPT ![c] = [after EXCEPT !.logins = 0]]
    /\ UNCHANGED <<filterVars, extractVars, statusVars, utilVars, is_logged_in, scraper, telegram_bot,
                   is_running, otp_log, monitor_thread, reply, lastNovel>>

RaisedUncaught(c) ==
    IF c = Manual
    THEN [ctx[c] EXCEPT !.raised = TRUE, !.expired_keys = {}, !.pc = "return"]
    ELSE [Idle EXCEPT !.raised = TRUE, !.pc = "done"]

\* the except branches a context reaches when a call raises
Raised(c) ==
    IF c = Manual
    THEN [ctx[c] EXCEPT !.raised = TRUE, !.expired_keys = {}, !.pc = "return"]
    ELSE [Idle EXCEPT !.raised = TRUE, !.pc = "sleep", !.wait = ErrorSleep]

\* is_duplicate: the second loop of _cleanup_expired, del self.cache[key]
\* for each collected key, then the membership test.  A key another thread
\* removed in between raises KeyError after some of the keys are deleted.
CleanupDelete(c) ==
    /\ ctx[c].pc = "delete"
    /\ \/ /\ ctx[c].expired_keys \subseteq DOMAIN cache
          /\ cache' = Without(cache, ctx[c].expired_keys)
          /\ ctx' = [ctx EXCEPT ![c] = Checked(c, cache')]
       \/ /\ ~(ctx[c].expired_keys \subseteq DOMAIN cache)
          /\ \E deleted \in SUBSET (ctx[c].expired_keys \cap DOMAIN cache) :
               cache' = Without(cache, deleted)
          /\ ctx' = [ctx EXCEPT ![c] = Raised(c)]
    /\ UNCHANGED <<now, call, prev, cache_file, disk, saved, extractVars, statusVars, utilVars, is_logged_in,
                   scraper, telegram_bot, is_running, otp_log, monitor_thread, reply,
                   lastNovel>>

\* filter_new_otps: new_otps.append(otp_data); self.add_otp(otp_data)
AddNew(c) ==
    /\ ctx[c].pc = "add"
    /\ LET r == Head(ctx[c].todo)
           new_otps == Append(ctx[c].new_otps, r)
       IN  /\ cache' = AddOtp(cache, r, now)
           /\ cache_file' = SaveCache(cache_file, cache', disk)
           /\ saved' = Persisted(saved, cache', disk)
           /\ lastNovel' = [lastNovel EXCEPT ![GenerateKey(r)] = now]
           /\ ctx' = [ctx EXCEPT ![c] =
                        IF SaveRaises(disk) THEN Raised(c)
                        ELSE [@ EXCEPT !.new_otps = new_otps,
                                       !.todo = Tail(@),
                                       !.pc = IF Tail(ctx[c].todo) # <<>> THEN "cleanup"
                                              ELSE AfterFilter(c, new_otps)]]
    /\ UNCHANGED <<now, call, prev, disk, extractVars, statusVars, utilVars, is_logged_in, scraper, telegram_bot,
                   is_running, otp_log, monitor_thread, reply>>

\* the OTPLog row _log_otps_to_db builds for one record
LogRow(r) == [otp_code |-> r.otp, phone_number |-> r.phone, service_name |-> r.service,
              sent_to_telegram |-> TRUE]

\* _log_otps_to_db(new_otps): the rows are committed together, or a database
\* error is caught and logged.  otp_log keeps the rows as a set.
LogOtpsToDb(c) ==
    /\ ctx[c].pc = "log"
    /\ \E committed \in BOOLEAN :
         /\ otp_log' = IF committed
                       THEN otp_log \cup {LogRow(ctx[c].new_otps[i]) :
                                            i \in 1 .. Len(ctx[c].new_otps)}
                       ELSE otp_log
         /\ ctx' = [ctx EXCEPT ![c].logged = committed,
                               ![c].pc = IF c = Manual /\ ~telegram_bot THEN "return"
                                         ELSE "send"]
    /\ UNCHANGED <<filterVars, extractVars, statusVars, utilVars, is_logged_in, scraper, telegram_bot,
                   is_running, monitor_thread, reply, lastNovel>>

SendCallsEach(new_otps) == [i \in 1 .. Len(new_otps) |-> "send_otp_message"]

\* if len(new_otps) == 1: send_otp_message(new_otps[0])
\* else: send_multiple_otps(new_otps)
SendCalls(new_otps) ==
    IF Len(new_otps) = 1 THEN <<"send_otp_message">> ELSE <<"send_multiple_otps">>

SendRaisesOnFailure(success) == ~success

\* send_otp_message / send_multiple_otps: except Exception returns False
SendRaises(success) == FALSE

\* asyncio.run(send_otp_message(new_otps[0])) for one record, else
\* asyncio.run(send_multiple_otps(new_otps)): True, or False when the
\* Telegram call raised
SendToTelegram(c) ==
    /\ ctx[c].pc = "send"
    /\ \E success \in BOOLEAN :
         ctx' = [ctx EXCEPT ![c] =
                   IF SendRaises(success) THEN Raised(c)
                   ELSE [@ EXCEPT !.sent = IF success THEN "ok" ELSE "failed",
                                  !.sends = SendCalls(ctx[c].new_otps),
                                  !.pc = IF c = Manual THEN "return" ELSE "stats"]]
    /\ UNCHANGED <<filterVars, extractVars, statusVars, utilVars, is_logged_in, scraper, telegram_bot,
                   is_running, otp_log, monitor_thread, reply, lastNovel>>

\* _monitor_loop: self._update_stats(), then time.sleep(30) begins
UpdateStats(t) ==
    /\ t \in Loops
    /\ ctx[t].pc = "stats"
    /\ ctx' = [ctx EXCEPT ![t] = [Idle EXCEPT !.pc = "sleep", !.wait = NormalSleep]]
    /\ UNCHANGED <<filterVars, extractVars, statusVars, utilVars, is_logged_in, scraper, telegram_bot,
                   is_running, otp_log, monitor_thread, reply, lastNovel>>

\* _monitor_loop: time.sleep returns and the next iteration starts
Sleep(t) ==
    /\ t \in Loops
    /\ ctx[t].pc = "sleep"
    /\ ctx' = [ctx EXCEPT ![t] = [Idle EXCEPT !.pc = "top"]]
    /\ UNCHANGED <<filterVars, extractVars, statusVars, utilVars, is_logged_in, scraper, telegram_bot,
                   is_running, otp_log, monitor_thread, reply, lastNovel>>

\* check_for_otps_manually(): the request arrives
CheckForOtpsManually ==
    /\ ctx[Manual].pc = "none"
    /\ ctx' = [ctx EXCEPT ![Manual].pc = IF scraper THEN "fetch" ELSE "return"]
    /\ UNCHANGED <<filterVars, extractVars, statusVars, utilVars, is_logged_in, scraper, telegram_bot,
                   is_running, otp_log, monitor_thread, reply, lastNovel>>

\* check_for_otps_manually(): the status string is returned
ManualReturn ==
    /\ ctx[Manual].pc = "return"
    /\ ctx' = [ctx EXCEPT ![Manual] = Idle]
    /\ UNCHANGED <<filterVars, extractVars, statusVars, utilVars, is_logged_in, scraper, telegram_bot,
                   is_running, otp_log, monitor_thread, reply, lastNovel>>

NoNovel == [k \in Keys |-> -1]

\* api_clear_cache: otp_filter.clear_cache()
ClearCache ==
    /\ cache' = ClearedCache(cache)
    /\ cache_file' = SaveCache(cache_file, cache', disk)
    /\ saved' = Persisted(saved, cache', disk)
    /\ lastNovel' = NoNovel
    /\ UNCHANGED <<now, call, prev, disk, extractVars, statusVars, utilVars, is_logged_in, scraper, telegram_bot,
                   is_running, ctx, otp_log, monitor_thread, reply>>

\* the clock advances
Tick ==
    /\ now < MaxTime * HalfWindow
    /\ now' = now + HalfWindow
    /\ UNCHANGED <<cache, call, prev, cache_file, disk, saved, extractVars, statusVars, utilVars, ctlVars>>

\* the controller as constructed, with or without each component
CtlInit ==
    /\ is_logged_in = FALSE
    /\ scraper \in BOOLEAN
    /\ telegram_bot \in BOOLEAN
    /\ is_running = FALSE
    /\ ctx = [c \in Ctx |-> Idle]
    /\ otp_log = {}
    /\ monitor_thread = 0
    /\ reply = None
    /\ lastNovel = NoNovel

StatsIdle == [pc |-> "none", expired_keys |-> {}]

\* kind: None before any request; db: whether the database answered
NoReply == [kind |-> None, is_running |-> FALSE, cache_size |-> 0, db |-> FALSE]

\* api_status with bot_controller None: the fixed answer
UninitializedReply ==
    [kind |-> "uninitialized", is_running |-> FALSE, cache_size |-> 0, db |-> FALSE]

\* get_stats: except Exception returns {}
EmptyReply(db_ok) == [kind |-> "empty", is_running |-> FALSE, cache_size |-> 0, db |-> db_ok]

\* get_stats: the dict it returns, with the cache c get_cache_stats left
StatsReply(c) ==
    [kind |-> "stats", is_running |-> is_running, cache_size |-> Cardinality(DOMAIN c),
     db |-> TRUE]

\* /api/status: api_status, and get_stats up to the first loop of
\* _cleanup_expired inside get_cache_stats
ApiStatus ==
    /\ stats_ctx.pc = "none"
    /\ IF ~bot_controller
       THEN /\ stats_reply' = UninitializedReply
            /\ UNCHANGED stats_ctx
       ELSE \E db_ok \in BOOLEAN :
              IF ~db_ok
              THEN /\ stats_reply' = EmptyReply(FALSE)
                   /\ UNCHANGED stats_ctx
              ELSE LET expired == ExpiredKeys(cache, now)
                   IN  IF expired = {}
                       THEN /\ stats_reply' = StatsReply(cache)
                            /\ UNCHANGED stats_ctx
                       ELSE /\ stats_ctx' = [pc |-> "delete", expired_keys |-> expired]
                            /\ UNCHANGED stats_reply
    /\ UNCHANGED <<filterVars, ctlVars, extractVars, utilVars, bot_controller>>

\* /api/status: the second loop of _cleanup_expired inside get_cache_stats,
\* then the dict; a KeyError is caught by get_stats, which returns {}
ApiStatusDelete ==
    /\ stats_ctx.pc = "delete"
    /\ \/ /\ stats_ctx.expired_keys \subseteq DOMAIN cache
          /\ cache' = Without(cache, stats_ctx.expired_keys)
          /\ stats_reply' = StatsReply(cache')
       \/ /\ ~(stats_ctx.expired_keys \subseteq DOMAIN cache)
          /\ \E deleted \in SUBSET (stats_ctx.expired_keys \cap DOMAIN cache) :
               cache' = Without(cache, deleted)
          /\ stats_reply' = EmptyReply(TRUE)
    /\ stats_ctx' = StatsIdle
    /\ UNCHANGED <<now, call, prev, cache_file, disk, saved, ctlVars, extractVars,
                   utilVars, bot_controller>>

\* no status request, the controller constructed
StatusQuiet ==
    /\ bot_controller = TRUE
    /\ stats_ctx = StatsIdle
    /\ stats_reply = NoReply

\* no status request yet; OTPBotController() may have failed
StatusInit ==
    /\ bot_controller \in BOOLEAN
    /\ stats_ctx = StatsIdle
    /\ stats_reply = NoReply

\* the controller left alone
CtlQuiet ==
    /\ StatusQuiet
    /\ is_logged_in = FALSE
    /\ scraper = FALSE
    /\ telegram_bot = FALSE
    /\ is_running = FALSE
    /\ ctx = [c \in Ctx |-> Idle]
    /\ otp_log = {}
    /\ monitor_thread = 0
    /\ reply = None
    /\ lastNovel = NoNovel

\* no utility function called
UtilQuiet ==
    /\ phone_text = <<>>
    /\ phone_out = None
    /\ format_list = <<>>
    /\ format_out = None

ExtractQuiet ==
    /\ text = <<>>
    /\ otp = None
    /\ rows = <<>>
    /\ page_messages = <<>>
    /\ UtilQuiet

InitFilter ==
    /\ FilterInit
    /\ CtlQuiet
    /\ ExtractQuiet

Step(c) ==
    \/ FetchMessages(c)
    \/ CleanupScan(c)
    \/ AddNew(c)
    \/ LogOtpsToDb(c)
    \/ SendToTelegram(c)

LoopStep(t) ==
    \/ LoopTop(t)
    \/ Step(t)
    \/ UpdateStats(t)
    \/ Sleep(t)

ManualStep ==
    \/ CheckForOtpsManually
    \/ Step(Manual)
    \/ ManualReturn

\* the controller as constructed, its cache file absent
Init ==
    /\ FilterInit
    /\ CtlInit
    /\ StatusQuiet
    /\ ExtractQuiet

\* the application as started, its cache file absent
InitStatus ==
    /\ FilterInit
    /\ CtlInit
    /\ StatusInit
    /\ ExtractQuiet

Next ==
    \/ StartMonitoring
    \/ \E t \in Loops : LoopStep(t)
    \/ ManualStep
    \/ \E c \in Ctx : CleanupDelete(c)
    \/ ClearCache
    \/ Tick

\* the monitor loop, once started, beside the operator's manual checks and
\* cache clears, as the clock advances
Spec == Init /\ [][Next]_vars

DispatchNext ==
    \/ StartMonitoring
    \/ \E t \in Loops : LoopStep(t)
    \/ ManualStep

\* the monitor loop beside the operator's manual checks, within one expiry
\* window of the cache and with no cache clear
SpecDispatch == Init /\ [][DispatchNext]_vars

ControlNext ==
    \/ StartMonitoring
    \/ StopMonitoring
    \/ \E t \in Loops : LoopStep(t)

\* the operator starting and stopping the monitor loop, within one expiry
\* window of the cache
SpecControl == Init /\ [][ControlNext]_vars

\* the cache under one sequential caller
SpecFilter == InitFilter /\ [][FilterNext]_vars

\* the same caller on a disk that can fail, across restarts of the process
SpecPersist == InitFilter /\ [][PersistNext]_vars

(***************************************************************************)
(* extract_otp_from_text: re.search of each pattern in list order, with    *)
(* re.IGNORECASE; the first pattern that matches anywhere gives group(1).  *)
(***************************************************************************)
Digit == {"0", "1", "2", "3", "4", "5", "6", "7", "8", "9"}
UpperCase == <<"A", "B", "C", "D", "E", "F", "G", "H", "I", "J", "K", "L", "M",
               "N", "O", "P", "Q", "R", "S", "T", "U", "V", "W", "X", "Y", "Z">>
LowerCase == <<"a", "b", "c", "d", "e", "f", "g", "h", "i", "j", "k", "l", "m",
               "n", "o", "p", "q", "r", "s", "t", "u", "v", "w", "x", "y", "z">>
Letter == {UpperCase[i] : i \in 1 .. 26} \cup {LowerCase[i] : i \in 1 .. 26}

\* \w
IsWordChar(ch) == ch \in Digit \cup Letter \cup {"_"}

\* what [:\s] matches
IsSeparator(ch) == ch \in {":", " ", "\t", "\n", "\r"}

Lower(ch) ==
    IF \E i \in 1 .. 26 : UpperCase[i] = ch
    THEN LowerCase[CHOOSE i \in 1 .. 26 : UpperCase[i] = ch]
    ELSE ch

\* \b between txt[i] and txt[i + 1], for i in 0 .. Len(txt)
WordBoundary(txt, i) ==
    (i >= 1 /\ IsWordChar(txt[i])) # (i + 1 <= Len(txt) /\ IsWordChar(txt[i + 1]))

\* where \b(\d{n})\b matches
BareMatches(txt, n) ==
    {p \in 1 .. Len(txt) - n + 1 :
        /\ \A i \in p .. p + n - 1 : txt[i] \in Digit
        /\ WordBoundary(txt, p - 1)
        /\ WordBoundary(txt, p + n - 1)}

\* the first position from q on that [:\s]* does not consume
SkipSeparators(txt, q) ==
    Min({j \in q .. Len(txt) + 1 : j = Len(txt) + 1 \/ ~IsSeparator(txt[j])})

\* the last position of the digit run \d+ takes from j on
DigitRunEnd(txt, j) ==
    Min({e \in j .. Len(txt) : e = Len(txt) \/ txt[e + 1] \notin Digit})

\* where label[:\s]*(\d+) matches, ignoring case
LabelMatches(txt, label) ==
    {p \in 1 .. Len(txt) - Len(label) + 1 :
        /\ \A i \in 1 .. Len(label) : Lower(txt[p + i - 1]) = label[i]
        /\ LET j == SkipSeparators(txt, p + Len(label))
           IN  j <= Len(txt) /\ txt[j] \in Digit}

LabelCapture(txt, label, p) ==
    LET j == SkipSeparators(txt, p + Len(label))
    IN  SubSeq(txt, j, DigitRunEnd(txt, j))

Bare(n) == [kind |-> "bare", n |-> n, label |-> <<>>]
Labelled(label) == [kind |-> "label", n |-> 0, label |-> label]

\* the list patterns of extract_otp_from_text, in its order
patterns ==
    << Bare(6), Bare(5), Bare(4),
       Labelled(<<"c", "o", "d", "e">>),
       Labelled(<<"v", "e", "r", "i", "f", "i", "c", "a", "t", "i", "o", "n">>),
       Labelled(<<"o", "t", "p">>),
       Labelled(<<"p", "i", "n">>) >>

\* re.search(pattern, text, re.IGNORECASE): group(1) of the leftmost match
Search(pattern, txt) ==
    IF pattern.kind = "bare"
    THEN LET ms == BareMatches(txt, pattern.n)
         IN  IF ms = {} THEN None ELSE SubSeq(txt, Min(ms), Min(ms) + pattern.n - 1)
    ELSE LET ms == LabelMatches(txt, pattern.label)
         IN  IF ms = {} THEN None ELSE LabelCapture(txt, pattern.label, Min(ms))

\* for pattern in patterns: the first match is returned
RECURSIVE FirstMatch(_, _)
FirstMatch(pats, txt) ==
    IF pats = <<>> THEN None
    ELSE LET m == Search(Head(pats), txt)
         IN  IF m # None THEN m ELSE FirstMatch(Tail(pats), txt)

extract_otp_from_text(txt) ==
    IF txt = <<>> THEN None ELSE FirstMatch(patterns, txt)

(***************************************************************************)
(* The SMS texts extraction is run on: up to MaxPieces pieces put          *)
(* together, and the text "otp: 4321 and also 987654".                     *)
(***************************************************************************)
Pieces ==
    { <<"o", "t", "p">>, <<"C", "o", "d", "e">>, <<":", " ">>, <<" ">>, <<"x">>,
      <<"4", "3", "2", "1">>, <<"1", "2", "3", "4", "5">>,
      <<"9", "8", "7", "6", "5", "4">> }

RECURSIVE Concat(_)
Concat(ps) == IF ps = <<>> THEN <<>> ELSE Head(ps) \o Concat(Tail(ps))

LabelledAndBare ==
    <<"o", "t", "p", ":", " ", "4", "3", "2", "1", " ", "a", "n", "d", " ",
      "a", "l", "s", "o", " ", "9", "8", "7", "6", "5", "4">>

Texts == {Concat(ps) : ps \in SeqsUpTo(Pieces, MaxPieces)} \cup {LabelledAndBare}

Unset == "unset"

InitExtract ==
    /\ FilterInit
    /\ CtlQuiet
    /\ text \in Texts
    /\ otp = Unset
    /\ rows = <<>>
    /\ page_messages = <<>>
    /\ UtilQuiet

\* otp = extract_otp_from_text(raw_text)
ExtractOtp ==
    /\ otp = Unset
    /\ otp' = extract_otp_from_text(text)
    /\ UNCHANGED <<text, rows, page_messages, filterVars, ctlVars, statusVars, utilVars>>

ExtractNext == ExtractOtp

\* extraction run on one SMS text
SpecExtract == InitExtract /\ [][ExtractNext]_vars

(***************************************************************************)
(* _extract_messages: the rows of the page, each the texts of its td       *)
(* cells, to the list of message records.                                  *)
(***************************************************************************)
Whitespace == {" ", "\t", "\n", "\r"}

Upper(ch) ==
    IF \E i \in 1 .. 26 : LowerCase[i] = ch
    THEN UpperCase[CHOOSE i \in 1 .. 26 : LowerCase[i] = ch]
    ELSE ch

\* str.strip()
Strip(txt) ==
    LET kept == {i \in 1 .. Len(txt) : txt[i] \notin Whitespace}
    IN  IF kept = {} THEN <<>>
        ELSE SubSeq(txt, Min(kept), CHOOSE i \in kept : \A j \in kept : j <= i)

\* str.title(): a letter after a non-letter is upper case, any other lower
Title(txt) ==
    [i \in 1 .. Len(txt) |->
        IF i = 1 \/ txt[i - 1] \notin Letter THEN Upper(txt[i]) ELSE Lower(txt[i])]

\* str.lower()
LowerText(txt) == [i \in 1 .. Len(txt) |-> Lower(txt[i])]

\* key in txt
Contains(key, txt) ==
    \E p \in 1 .. Len(txt) - Len(key) + 1 : SubSeq(txt, p, p + Len(key) - 1) = key

NotAvailable == <<"N", "/", "A">>
UnknownService == <<"U", "n", "k", "n", "o", "w", "n">>

\* what re.sub(r'[^\d+]', '', phone) keeps
IsPhoneChar(ch) == ch \in Digit \cup {"+"}

clean_phone_number(phone) ==
    IF phone = <<>> THEN NotAvailable
    ELSE LET cleaned == SelectSeq(phone, IsPhoneChar)
             prefixed ==
                 IF cleaned # <<>> /\ cleaned[1] # "+"
                 THEN IF Len(cleaned) >= 2 /\ SubSeq(cleaned, 1, 2) = <<"8", "8">>
                      THEN <<"+">> \o cleaned
                      ELSE IF Len(cleaned) >= 10 THEN <<"+">> \o cleaned ELSE cleaned
                 ELSE cleaned
         IN  IF prefixed # <<>> THEN prefixed ELSE phone

service_mappings ==
    <<[key |-> <<"f", "b">>,
       value |-> <<"F", "a", "c", "e", "b", "o", "o", "k">>],
      [key |-> <<"g", "o", "o", "g", "l", "e">>,
       value |-> <<"G", "o", "o", "g", "l", "e">>],
      [key |-> <<"w", "h", "a", "t", "s", "a", "p", "p">>,
       value |-> <<"W", "h", "a", "t", "s", "A", "p", "p">>],
      [key |-> <<"t", "e", "l", "e", "g", "r", "a", "m">>,
       value |-> <<"T", "e", "l", "e", "g", "r", "a", "m">>],
      [key |-> <<"i", "n", "s", "t", "a", "g", "r", "a", "m">>,
       value |-> <<"I", "n", "s", "t", "a", "g", "r", "a", "m">>],
      [key |-> <<"t", "w", "i", "t", "t", "e", "r">>,
       value |-> <<"T", "w", "i", "t", "t", "e", "r">>],
      [key |-> <<"l", "i", "n", "k", "e", "d", "i", "n">>,
       value |-> <<"L", "i", "n", "k", "e", "d", "I", "n">>],
      [key |-> <<"t", "i", "k", "t", "o", "k">>,
       value |-> <<"T", "i", "k", "T", "o", "k">>],
      [key |-> <<"s", "n", "a", "p", "c", "h", "a", "t">>,
       value |-> <<"S", "n", "a", "p", "c", "h", "a", "t">>],
      [key |-> <<"d", "i", "s", "c", "o", "r", "d">>,
       value |-> <<"D", "i", "s", "c", "o", "r", "d">>]>>

clean_service_name(service) ==
    IF service = <<>> THEN UnknownService
    ELSE LET cleaned == Title(Strip(service))
             service_lower == LowerText(cleaned)
             hits == {i \in 1 .. Len(service_mappings) :
                        Contains(service_mappings[i].key, service_lower)}
         IN  IF hits # {} THEN service_mappings[Min(hits)].value ELSE cleaned

\* the dict _extract_messages appends for a row with a code (its timestamp,
\* the wall-clock time of the extraction, is left out)
RowRecord(row, code) ==
    LET phone == clean_phone_number(row[1])
        service == clean_service_name(row[2])
    IN  [otp |-> code,
         phone |-> IF phone # <<>> THEN phone ELSE NotAvailable,
         service |-> IF service # <<>> THEN service ELSE UnknownService,
         raw_message |-> Strip(row[3])]

DataRowsAll(rs) == rs

\* rows[1:]
DataRows(rs) == IF rs = <<>> THEN <<>> ELSE Tail(rs)

\* the for loop of _extract_messages over the rows rs
RECURSIVE ExtractRows(_)
ExtractRows(rs) ==
    IF rs = <<>> THEN <<>>
    ELSE LET row == Head(rs)
             rest == ExtractRows(Tail(rs))
         IN  IF Len(row) < 3 THEN rest
             ELSE LET code == extract_otp_from_text(Strip(row[3]))
                  IN  IF code # None /\ code # <<>>
                      THEN <<RowRecord(row, code)>> \o rest
                      ELSE rest

ExtractMessagesOf(rs) == ExtractRows(DataRows(rs))

(***************************************************************************)
(* The pages _extract_messages is run on: up to MaxRows rows of these      *)
(* kinds.                                                                  *)
(***************************************************************************)
RowKinds ==
    { \* a row of th cells: no td
      <<>>,
      \* two cells
      <<<<"8", "8", "0", "1">>, <<"f", "b">>>>,
      \* three cells, a code in the third
      <<<<"8", "8", "0", "1", "7", "1", "2", "3", "4", "5">>, <<" ", "f", "b", " ">>,
        <<" ", "Y", "o", "u", "r", " ", "c", "o", "d", "e", " ", "1", "2", "3", "4", " ">>>>,
      \* three cells, no code
      <<<<"+", "8", "8", "1">>, <<"g", "o", "o", "g", "l", "e">>,
        <<"h", "e", "l", "l", "o">>>>,
      \* empty phone, blank service
      <<<<>>, <<" ">>, <<"9", "8", "7", "6", "5", "4">>>>,
      \* four cells
      <<<<"8", "8", "1">>, <<"m", "y", " ", "b", "a", "n", "k">>,
        <<"p", "i", "n", ":", " ", "5", "5">>, <<"x">>>>,
      \* a phone cell without digits, kept as it is by clean_phone_number
      <<<<"x", "_", "Y">>, <<"z">>, <<"c", "o", "d", "e", " ", "4", "3", "2", "1">>>>,
      \* the same code under another phone and service
      <<<<"x">>, <<"y", "_", "z">>, <<"c", "o", "d", "e", " ", "4", "3", "2", "1">>>> }

InitRows ==
    /\ FilterInit
    /\ CtlQuiet
    /\ text = <<>>
    /\ otp = None
    /\ rows \in SeqsUpTo(RowKinds, MaxRows)
    /\ page_messages = Unset
    /\ UtilQuiet

\* messages = self._extract_messages(soup)
ExtractMessages ==
    /\ page_messages = Unset
    /\ page_messages' = ExtractMessagesOf(rows)
    /\ UNCHANGED <<text, otp, rows, filterVars, ctlVars, statusVars, utilVars>>

RowsNext == ExtractMessages

\* extraction run on one fetched page
SpecRows == InitRows /\ [][RowsNext]_vars

(***************************************************************************)
(* clean_phone_number run on the text of a phone cell.                     *)
(***************************************************************************)
PhonePieces ==
    { <<"+">>, <<"8", "8">>, <<"1">>, <<"-">>, <<" ">>,
      <<"1", "2", "3", "4", "5", "6", "7", "8", "9">>,
      <<"1", "7", "1", "8", "5", "5", "5", "1", "2", "3", "4">> }

PhoneTexts == {Concat(ps) : ps \in SeqsUpTo(PhonePieces, MaxPhonePieces)}

InitPhone ==
    /\ FilterInit
    /\ CtlQuiet
    /\ text = <<>>
    /\ otp = None
    /\ rows = <<>>
    /\ page_messages = <<>>
    /\ phone_text \in PhoneTexts
    /\ phone_out = Unset
    /\ format_list = <<>>
    /\ format_out = None

\* phone = clean_phone_number(cells[0].text)
CleanPhone ==
    /\ phone_out = Unset
    /\ phone_out' = clean_phone_number(phone_text)
    /\ UNCHANGED <<phone_text, format_list, format_out, filterVars, ctlVars, extractVars,
                   statusVars>>

PhoneNext == CleanPhone

\* phone normalization run on one text
SpecPhone == InitPhone /\ [][PhoneNext]_vars

(***************************************************************************)
(* format_otp_message and format_multiple_otps.  A message is the sequence *)
(* of its characters; each emoji of the templates is one element, written  *)
(* as its code point.                                                      *)
(***************************************************************************)
\* str(n)
RECURSIVE Str(_)
Str(n) ==
    LET d == <<"0", "1", "2", "3", "4", "5", "6", "7", "8", "9">>[(n % 10) + 1]
    IN  IF n < 10 THEN <<d>> ELSE Append(Str(n \div 10), d)

\* otp_data.get(key, default)
Get(otp_data, key, default) ==
    IF key \in DOMAIN otp_data THEN otp_data[key] ELSE default

\* sep.join(parts)
RECURSIVE Join(_, _)
Join(sep, parts) ==
    IF parts = <<>> THEN <<>>
    ELSE IF Len(parts) = 1 THEN parts[1]
    ELSE parts[1] \o sep \o Join(sep, Tail(parts))

NoNewOtps ==
    <<"N", "o", " ", "n", "e", "w", " ", "O", "T", "P", "s", " ", "f", "o",
      "u", "n", "d", ".">>

\* now_text: datetime.now().strftime('%H:%M:%S')
format_otp_message(otp_data, now_text) ==
    LET code == Get(otp_data, "otp", NotAvailable)
        phone == Get(otp_data, "phone", NotAvailable)
        service == Get(otp_data, "service", UnknownService)
        timestamp == Get(otp_data, "timestamp", now_text)
    IN  <<"U+1F510", " ", "<", "b", ">", "N", "e", "w", " ", "O", "T", "P",
          " ", "R", "e", "c", "e", "i", "v", "e", "d", "<", "/", "b", ">",
          "\n", "\n", "U+1F522", " ", "O", "T", "P", ":", " ", "<", "c",
          "o", "d", "e", ">">>
        \o code \o
        <<"<", "/", "c", "o", "d", "e", ">", "\n", "U+1F4F1", " ", "N",
          "u", "m", "b", "e", "r", ":", " ", "<", "c", "o", "d", "e", ">">>
        \o phone \o
        <<"<", "/", "c", "o", "d", "e", ">", "\n", "U+1F310", " ", "S",
          "e", "r", "v", "i", "c", "e", ":", " ", "<", "b", ">">>
        \o service \o
        <<"<", "/", "b", ">", "\n", "U+23F0", " ", "T", "i", "m", "e", ":",
          " ">>
        \o timestamp \o
        <<"\n", "\n", "<", "i", ">", "T", "a", "p", " ", "t", "h", "e",
          " ", "O", "T", "P", " ", "t", "o", " ", "c", "o", "p", "y", " ",
          "i", "t", "!", "<", "/", "i", ">">>

NumberedFromZero(otp_list) == [i \in 1 .. Len(otp_list) |-> <<i - 1, otp_list[i]>>]

\* enumerate(otp_list, 1)
Numbered(otp_list) == [i \in 1 .. Len(otp_list) |-> <<i, otp_list[i]>>]

\* msg of the loop of format_multiple_otps
NumberedLine(i, otp_data) ==
    LET code == Get(otp_data, "otp", NotAvailable)
        phone == Get(otp_data, "phone", NotAvailable)
        service == Get(otp_data, "service", UnknownService)
    IN  <<"<", "b", ">">> \o Str(i) \o
        <<".", "<", "/", "b", ">", " ", "<", "c", "o", "d", "e", ">">>
        \o code \o
        <<"<", "/", "c", "o", "d", "e", ">", " ", "|", " ">>
        \o service \o
        <<" ", "|", " ", "<", "c", "o", "d", "e", ">">>
        \o phone \o
        <<"<", "/", "c", "o", "d", "e", ">">>

format_multiple_otps(otp_list, now_text) ==
    IF otp_list = <<>> THEN NoNewOtps
    ELSE IF Len(otp_list) = 1 THEN format_otp_message(otp_list[1], now_text)
    ELSE LET header ==
                 <<"U+1F510", " ", "<", "b", ">">> \o Str(Len(otp_list)) \o
                 <<" ", "N", "e", "w", " ", "O", "T", "P", "s", " ", "R",
                   "e", "c", "e", "i", "v", "e", "d", "<", "/", "b", ">",
                   "\n", "\n">>
             enumerated == Numbered(otp_list)
             messages == [k \in 1 .. Len(otp_list) |->
                             NumberedLine(enumerated[k][1], enumerated[k][2])]
             footer ==
                 <<"\n", "\n", "<", "i", ">", "T", "a", "p", " ", "a", "n",
                   "y", " ", "O", "T", "P", " ", "t", "o", " ", "c", "o",
                   "p", "y", " ", "i", "t", "!", "<", "/", "i", ">">>
         IN  header \o Join(<<"\n">>, messages) \o footer

(***************************************************************************)
(* The lists format_multiple_otps is run on.                               *)
(***************************************************************************)
GoogleRecord ==
    [otp |-> <<"1", "2", "3", "4">>, phone |-> <<"+", "8", "8", "1">>,
     service |-> <<"G", "o", "o", "g", "l", "e">>,
     timestamp |-> <<"1", "2", ":", "0", "0", ":", "0", "1">>]

\* the service cell held a line break
TwoLineServiceRecord ==
    [otp |-> <<"9", "8", "7", "6", "5", "4">>, phone |-> NotAvailable,
     service |-> <<"M", "y", "\n", "B", "a", "n", "k">>,
     timestamp |-> <<"0", "9", ":", "3", "0", ":", "0", "0">>]

\* a dict with the code only
CodeOnlyRecord == [otp |-> <<"5", "5">>]

\* the code of GoogleRecord at another number and service
FacebookRecord ==
    [otp |-> <<"1", "2", "3", "4">>, phone |-> <<"+", "1", "7", "1", "8", "5", "5", "5", "1",
                               "2", "3", "4">>,
     service |-> <<"F", "a", "c", "e", "b", "o", "o", "k">>,
     timestamp |-> <<"1", "2", ":", "0", "0", ":", "0", "1">>]

FormatRecords == {GoogleRecord, TwoLineServiceRecord, CodeOnlyRecord, FacebookRecord}

ClockText == <<"1", "2", ":", "3", "4", ":", "5", "6">>

InitFormat ==
    /\ FilterInit
    /\ CtlQuiet
    /\ text = <<>>
    /\ otp = None
    /\ rows = <<>>
    /\ page_messages = <<>>
    /\ phone_text = <<>>
    /\ phone_out = None
    /\ format_list \in SeqsUpTo(FormatRecords, MaxList)
    /\ format_out = Unset

\* message = format_multiple_otps(otp_list)
FormatMultipleOtps ==
    /\ format_out = Unset
    /\ format_out' = format_multiple_otps(format_list, ClockText)
    /\ UNCHANGED <<phone_text, phone_out, format_list, filterVars, ctlVars, extractVars,
                   statusVars>>

FormatNext == FormatMultipleOtps

\* the formatter run on one list
SpecFormat == InitFormat /\ [][FormatNext]_vars

InitLoaded ==
    /\ LoadedInit
    /\ CtlQuiet
    /\ ExtractQuiet

\* one sequential caller of the filter, after a start that may have loaded
\* a cache file
SpecLoaded == InitLoaded /\ [][FilterNext]_vars

\* what can happen once the controller exists
ControllerStep ==
    /\ bot_controller
    /\ \/ StartMonitoring
       \/ \E t \in Loops : LoopStep(t)
       \/ \E t \in Loops : CleanupDelete(t)

StatusNext ==
    \/ ApiStatus
    \/ ApiStatusDelete
    \/ ControllerStep
    \/ Tick

\* the monitor loop, never stopped, beside the dashboard's status requests
SpecStatus == InitStatus /\ [][StatusNext]_vars

\* the loop threads are scheduled, and their calls and sleeps return
FairStatus ==
    SpecStatus /\ \A t \in Loops : WF_vars(LoopStep(t)) /\ WF_vars(CleanupDelete(t))

\* the loop threads are scheduled, and their calls and sleeps return
FairControl == SpecControl /\ \A t \in Loops : WF_vars(LoopStep(t))

(***************************************************************************)
(* The claims.                                                             *)
(***************************************************************************)

\* C1: with r absent from the cache, filter_new_otps([r, r]) returns [r];
\* and of two successive calls filter_new_otps([r]) no more than the expiry
\* window apart, the first returns [r] and the second returns [].
IdempotentDedup ==
    /\ ( /\ call.op = "filter_new_otps"
         /\ Len(call.arg) = 2
         /\ call.arg[1] = call.arg[2]
         /\ ~InCache(call.before, call.arg[1]) )
       => call.result = <<call.arg[1]>>
    /\ ( /\ call.op = "filter_new_otps"
         /\ prev.op = "filter_new_otps"
         /\ Len(call.arg) = 1
         /\ prev.arg = call.arg
         /\ ~InCache(prev.before, prev.arg[1])
         /\ call.at - prev.at <= expire_minutes )
       => (prev.result = prev.arg /\ call.result = <<>>)

\* the second of two calls with [r], made a full window after the first,
\* has returned []
IdempotentDedupWitness ==
    /\ call.op = "filter_new_otps"
    /\ prev.op = "filter_new_otps"
    /\ Len(call.arg) = 1
    /\ prev.arg = call.arg
    /\ ~InCache(prev.before, prev.arg[1])
    /\ call.at = prev.at + expire_minutes
    /\ prev.result = prev.arg
    /\ call.result = <<>>

\* C2: check-then-admit is atomic: a context appends a record to its
\* new_otps only if no context returned that fingerprint as novel within the
\* expiry window (since the last clear_cache).
SerializedAdmit ==
    [][\A c \in Ctx :
          Len(ctx'[c].new_otps) > Len(ctx[c].new_otps) =>
              LET k == GenerateKey(Head(ctx[c].todo))
              IN  lastNovel[k] = -1 \/ now - lastNovel[k] > expire_minutes]_vars

\* C3: at most one monitor loop is active: only the loop thread created
\* last passes the loop condition and begins a fetch cycle.
SingleMonitorLoop ==
    [][\A t \in Loops :
          (ctx[t].pc = "top" /\ ctx'[t].pc = "fetch") => monitor_thread = t]_vars

ControllerState == <<is_running, ctx, monitor_thread, cache, otp_log, is_logged_in>>

\* C4: start_monitoring while is_running reports "already running" and
\* changes nothing else; stop_monitoring while no loop thread is alive
\* changes nothing but its reply.
IdempotentControl ==
    [][ /\ (StartMonitoring /\ is_running) =>
              (reply' = "Monitoring is already running" /\ UNCHANGED ControllerState)
        /\ (StopMonitoring /\ \A t \in Loops : ~Alive(t)) =>
              UNCHANGED ControllerState ]_vars

\* start_monitoring has answered "already running" beside the one loop
IdempotentControlWitness ==
    /\ reply = "Monitoring is already running"
    /\ is_running
    /\ Cardinality({t \in Loops : Alive(t)}) = 1

\* C5: is_duplicate on a fingerprint admitted at t0 answers True strictly
\* before t0 + window, and strictly after it answers False and the entry is
\* gone from the cache.
ExpiryBoundary ==
    (call.op = "is_duplicate" /\ InCache(call.before, call.arg[1])) =>
        LET k == GenerateKey(call.arg[1])
            t0 == call.before[k].timestamp
        IN  /\ call.at < t0 + expire_minutes => call.result = TRUE
            /\ call.at > t0 + expire_minutes =>
                  (call.result = FALSE /\ k \notin DOMAIN cache)

\* is_duplicate has answered False for an entry older than the window
ExpiryBoundaryWitness ==
    /\ call.op = "is_duplicate"
    /\ InCache(call.before, call.arg[1])
    /\ call.at > call.before[GenerateKey(call.arg[1])].timestamp + expire_minutes
    /\ call.result = FALSE
    /\ ~InCache(cache, call.arg[1])

\* C6: a fetch made while logged in that gets the login page back resets
\* is_logged_in to false.
SessionLossDetected ==
    [][\A c \in Ctx :
          ( /\ is_logged_in
            /\ ctx[c].pc = "fetch"
            /\ ctx'[c].fetched = "login_page" ) => ~is_logged_in']_vars

\* C7: a loop cycle whose fetch failed goes to sleep for the longer
\* interval, and one whose fetch succeeded for the base interval.
FailureBackoff ==
    [][\A t \in Loops :
          (ctx[t].pc = "stats" /\ ctx'[t].pc = "sleep") =>
              /\ ctx[t].fetched \in FetchFailures => ctx'[t].wait = ErrorSleep
              /\ ctx[t].fetched = "ok" => ctx'[t].wait = NormalSleep]_vars

DeliveryFlagFaithful ==
    \A c \in Ctx :
        (ctx[c].sent # None /\ ctx[c].logged) =>
            \A i \in 1 .. Len(ctx[c].new_otps) :
                [LogRow(ctx[c].new_otps[i])
                    EXCEPT !.sent_to_telegram = (ctx[c].sent = "ok")] \in otp_log

\* the captures of the labelled patterns that match txt
LabelCaptures(txt) ==
    {LabelCapture(txt, patterns[i].label, Min(LabelMatches(txt, patterns[i].label))) :
        i \in {j \in 1 .. Len(patterns) :
                 /\ patterns[j].kind = "label"
                 /\ LabelMatches(txt, patterns[j].label) # {}}}

\* C10: a labelled pattern that matches wins over the bare digit runs, which
\* are tried 6 digits, 5 digits, 4 digits; "otp: 4321 and also 987654"
\* gives "4321".
LabelledPatternFirst ==
    otp # Unset =>
        IF LabelCaptures(text) # {}
        THEN otp \in LabelCaptures(text)
        ELSE otp = FirstMatch(<<Bare(6), Bare(5), Bare(4)>>, text)

\* how many times r occurs in the list seq
Occurrences(r, seq) == Cardinality({i \in 1 .. Len(seq) : seq[i] = r})

\* C11: a restart loses no fingerprint that a successful write put in the
\* file less than one window earlier; and after an admit or a clear whose
\* write succeeded the file holds exactly the in-memory cache.
RestartKeepsPersisted ==
    /\ call.op = "restart" =>
          \A k \in DOMAIN saved :
              ( /\ k \in DOMAIN call.before
                /\ call.before[k] = saved[k]
                /\ call.at - saved[k].timestamp < expire_minutes )
              => k \in DOMAIN cache
    /\ (call.op \in {"filter_new_otps", "clear_cache"} /\ call.saved = "ok")
          => cache_file = Written(cache)

\* C12: a call whose _save_cache failed lets no exception out; the cache in
\* memory holds every record it admitted, each record of the list that was
\* not in the cache is returned once, and a clear leaves the cache empty.
PersistenceFailureSwallowed ==
    call.saved = "failed" =>
        /\ ~call.raised
        /\ call.op = "filter_new_otps" =>
              \A r \in Records :
                  ( /\ Occurrences(r, call.arg) > 0
                    /\ ~InCache(CleanupExpired(call.before, call.at), r) )
                  => (Occurrences(r, call.result) = 1 /\ InCache(cache, r))
        /\ call.op = "clear_cache" => cache = EmptyCache

\* filter_new_otps has returned a record although the write failed
PersistenceFailureSwallowedWitness ==
    /\ call.op = "filter_new_otps"
    /\ call.saved = "failed"
    /\ ~call.raised
    /\ call.result # <<>>
    /\ InCache(cache, call.result[1])
    /\ ~InCache(LoadCache(cache_file), call.result[1])

\* what a call made right after clear_cache answers
AfterReset ==
    prev.op = "clear_cache" =>
        /\ call.op = "get_cache_stats" => call.result = 0
        /\ call.op = "is_duplicate" => call.result = FALSE
        /\ call.op = "filter_new_otps" =>
              \A r \in Records :
                  Occurrences(r, call.arg) > 0 => Occurrences(r, call.result) = 1

OneSendPerCycle ==
    \A t \in Loops :
        /\ Len(ctx[t].sends) <= 1
        /\ ctx[t].pc = "stats" =>
              /\ ctx[t].new_otps = <<>> => ctx[t].sends = <<>>
              /\ Len(ctx[t].new_otps) = 1 => ctx[t].sends = <<"send_otp_message">>
              /\ Len(ctx[t].new_otps) > 1 => ctx[t].sends = <<"send_multiple_otps">>
              /\ ctx[t].fetched # "ok" => ctx[t].sends = <<>>

\* a cycle with two novel records has sent them in one batch message
OneSendPerCycleWitness ==
    \E t \in Loops :
        /\ ctx[t].pc = "stats"
        /\ Len(ctx[t].new_otps) = 2
        /\ ctx[t].sends = <<"send_multiple_otps">>

\* C14: the send of a cycle, failed or not, is made once and is followed by
\* the stats update; after a failed send the thread reaches the normal
\* wait and then the top of the next iteration.
SendFailureNotFatal ==
    /\ [][\A t \in Loops :
             (ctx[t].pc = "send" /\ ctx'[t] # ctx[t]) =>
                 /\ ctx'[t].pc = "stats"
                 /\ ctx'[t].sent \in {"ok", "failed"}
                 /\ Len(ctx'[t].sends) = 1
                 /\ ~ctx'[t].raised]_vars
    /\ \A t \in Loops :
          (ctx[t].sent = "failed") ~> (ctx[t].pc = "sleep" /\ ctx[t].wait = NormalSleep)
    /\ \A t \in Loops : (ctx[t].sent = "failed") ~> (ctx[t].pc = "top")

\* a cycle whose send failed is at its stats update
SendFailureNotFatalWitness ==
    \E t \in Loops :
        /\ ctx[t].sent = "failed"
        /\ ctx[t].pc = "stats"
        /\ Len(ctx[t].sends) = 1

\* C16: a fetch makes at most one login attempt; when the login fails the
\* session stays logged out, the portal page is not requested, nothing is
\* returned and the thread goes to the end of its cycle; a thread starts a
\* fetch only from the top of an iteration, which it reaches only from its
\* wait or when it is started.
FailedLoginNoTightLoop ==
    [][\A t \in Loops :
          /\ (ctx[t].pc = "fetch" /\ ctx'[t] # ctx[t]) =>
                /\ ctx'[t].logins <= 1
                /\ ctx'[t].fetched = "auth_failed" =>
                      /\ ctx'[t].logins = 1
                      /\ ~is_logged_in'
                      /\ ~ctx'[t].page
                      /\ ctx'[t].todo = <<>>
                      /\ ctx'[t].pc = "stats"
          /\ (ctx'[t].pc = "fetch" /\ ctx[t].pc # "fetch") => ctx[t].pc = "top"
          /\ (ctx'[t].pc = "top" /\ ctx[t].pc # "top") =>
                ctx[t].pc \in {"sleep", "none", "done"}]_vars

\* a cycle whose login failed is at its end, still logged out
FailedLoginNoTightLoopWitness ==
    \E t \in Loops :
        /\ ctx[t].fetched = "auth_failed"
        /\ ctx[t].pc = "stats"
        /\ ctx[t].logins = 1
        /\ ~is_logged_in

\* C17: a fetch made while logged in whose page request returns a non-200
\* status or raises returns nothing and leaves is_logged_in true, without a
\* login attempt.
TransientFailureKeepsSession ==
    [][\A t \in Loops :
          ( /\ ctx[t].pc = "fetch"
            /\ is_logged_in
            /\ ctx'[t].fetched \in {"non200", "error"} ) =>
              /\ is_logged_in'
              /\ ctx'[t].logins = 0
              /\ ctx'[t].page
              /\ ctx'[t].todo = <<>>]_vars

\* a logged-in fetch has failed on the page request and the session is kept
TransientFailureKeepsSessionWitness ==
    \E t \in Loops :
        /\ ctx[t].fetched \in {"non200", "error"}
        /\ ctx[t].logins = 0
        /\ ctx[t].pc = "stats"
        /\ is_logged_in

\* a cycle of loop thread t in which something has failed
FailingCycle(t) ==
    \/ ctx[t].raised
    \/ ctx[t].fetched \in FetchFailures
    \/ ctx[t].sent = "failed"
    \/ (ctx[t].pc = "send" /\ ~ctx[t].logged)

\* C15: a loop thread leaves its loop only when is_running is false, and a
\* thread in a failing cycle eventually begins another fetch unless
\* is_running has become false.
LoopSurvivesFailure ==
    /\ [][\A t \in Loops :
             (ctx'[t].pc = "done" /\ ctx[t].pc # "done") => ~is_running]_vars
    /\ \A t \in Loops :
          (FailingCycle(t) /\ ctx[t].pc # "fetch") ~> (ctx[t].pc = "fetch" \/ ~is_running)

\* a cycle in which the cache raised is in the longer wait of the except
\* branch
LoopSurvivesFailureWitness ==
    \E t \in Loops :
        /\ ctx[t].raised
        /\ ctx[t].pc = "sleep"
        /\ ctx[t].wait = ErrorSleep
        /\ is_running

\* the rows of the page that give a record: not the first, three cells or
\* more, a code in the third
UsableRows ==
    {i \in 2 .. Len(rows) :
        /\ Len(rows[i]) >= 3
        /\ extract_otp_from_text(Strip(rows[i][3])) # None}

\* C19: the list holds one record for each usable row and nothing else, in
\* row order, and no record has an empty code.
OneRecordPerUsableRow ==
    page_messages # Unset =>
        /\ Len(page_messages) = Cardinality(UsableRows)
        /\ \A j \in 1 .. Len(page_messages) :
              LET i == CHOOSE x \in UsableRows :
                           Cardinality({y \in UsableRows : y <= x}) = j
              IN  /\ page_messages[j].raw_message = Strip(rows[i][3])
                  /\ page_messages[j].otp = extract_otp_from_text(Strip(rows[i][3]))
                  /\ page_messages[j].otp # <<>>

\* a page whose first row has a code and whose second row is short has
\* given the one record of its third row
OneRecordPerUsableRowWitness ==
    /\ page_messages # Unset
    /\ Len(rows) = 3
    /\ Len(rows[1]) >= 3
    /\ extract_otp_from_text(Strip(rows[1][3])) # None
    /\ Len(rows[2]) < 3
    /\ Len(page_messages) = 1

\* C20: a status request always gets an answer, and with the controller
\* constructed and the database reachable the answer carries the
\* controller's is_running.
StatusNeverFails ==
    [][((ApiStatus \/ ApiStatusDelete) /\ stats_ctx'.pc = "none") =>
          /\ stats_reply'.kind \in {"uninitialized", "stats", "empty"}
          /\ (bot_controller /\ stats_reply'.db) =>
                (stats_reply'.kind = "stats" /\ stats_reply'.is_running = is_running)]_vars

\* the digits of a phone text
DigitsOf(phone) == SelectSeq(phone, LAMBDA ch : ch \in Digit)

\* whether the first digit or '+' of a phone text is a '+'
LeadingPlus(phone) ==
    LET kept == SelectSeq(phone, IsPhoneChar)
    IN  kept # <<>> /\ kept[1] = "+"

\* C21: of a phone text with a digit, the result is its digits after its
\* leading '+' if it has one; without a leading '+' it is '+' and the digits
\* when they begin with 88 or are ten or more, and the digits alone
\* otherwise; so it never holds more than one '+'.
PhoneNormalized ==
    (phone_out # Unset /\ DigitsOf(phone_text) # <<>>) =>
        LET digits == DigitsOf(phone_text)
        IN  /\ phone_out =
                  IF LeadingPlus(phone_text) THEN <<"+">> \o digits
                  ELSE IF \/ (Len(digits) >= 2 /\ SubSeq(digits, 1, 2) = <<"8", "8">>)
                          \/ Len(digits) >= 10
                       THEN <<"+">> \o digits
                       ELSE digits
            /\ Cardinality({i \in 1 .. Len(phone_out) : phone_out[i] = "+"}) <= 1

\* txt.split("\n")
RECURSIVE Lines(_)
Lines(txt) ==
    LET breaks == {i \in 1 .. Len(txt) : txt[i] = "\n"}
    IN  IF breaks = {} THEN <<txt>>
        ELSE <<SubSeq(txt, 1, Min(breaks) - 1)>>
                 \o Lines(SubSeq(txt, Min(breaks) + 1, Len(txt)))

StartsWith(txt, prefix) ==
    Len(txt) >= Len(prefix) /\ SubSeq(txt, 1, Len(prefix)) = prefix

\* the code a dict is shown with
ShownCode(otp_data) == IF "otp" \in DOMAIN otp_data THEN otp_data.otp ELSE NotAvailable

\* the start of the line numbered i
LineNumber(i) == <<"<", "b", ">">> \o Str(i) \o <<".", "<", "/", "b", ">", " ">>

\* whether a field of a dict of the list holds a line break
BrokenField ==
    \E k \in 1 .. Len(format_list) : \E f \in DOMAIN format_list[k] :
        \E i \in 1 .. Len(format_list[k][f]) : format_list[k][f][i] = "\n"

\* C22: the empty list gives the fixed message; one record gives the
\* single-record template with its code, phone, service and time; n >= 2
\* records give a header with n and exactly n numbered lines, numbered 1..n
\* in input order, the i-th holding the i-th code (and no other line between
\* header and footer when no field holds a line break).
FormatterCaseSplit ==
    format_out # Unset =>
        LET n == Len(format_list)
            ls == Lines(format_out)
            numbered == {k \in 1 .. Len(ls) : \E i \in 1 .. n : StartsWith(ls[k], LineNumber(i))}
        IN  /\ n = 0 => format_out = NoNewOtps
            /\ n = 1 =>
                  LET d == format_list[1]
                  IN  /\ Contains(<<"<", "b", ">", "N", "e", "w", " ", "O", "T", "P", " ", "R", "e", "c", "e", "i", "v", "e", "d", "<", "/", "b", ">">>, ls[1])
                      /\ numbered = {}
                      /\ Contains(<<"O", "T", "P", ":", " ", "<", "c", "o", "d", "e", ">">> \o ShownCode(d) \o <<"<", "/", "c", "o", "d", "e", ">">>, format_out)
                      /\ Contains(<<"N", "u", "m", "b", "e", "r", ":", " ", "<", "c", "o", "d", "e", ">">> \o Get(d, "phone", NotAvailable) \o <<"<", "/", "c", "o", "d", "e", ">">>, format_out)
                      /\ Contains(<<"S", "e", "r", "v", "i", "c", "e", ":", " ", "<", "b", ">">> \o Get(d, "service", UnknownService) \o <<"<", "/", "b", ">">>, format_out)
                      /\ Contains(<<"T", "i", "m", "e", ":", " ">> \o Get(d, "timestamp", ClockText), format_out)
            /\ n >= 2 =>
                  /\ Contains(<<"<", "b", ">">> \o Str(n) \o <<" ", "N", "e", "w", " ", "O", "T", "P", "s", " ", "R", "e", "c", "e", "i", "v", "e", "d", "<", "/", "b", ">">>, ls[1])
                  /\ Cardinality(numbered) = n
                  /\ \A i \in 1 .. n :
                        LET k == CHOOSE x \in numbered :
                                     Cardinality({y \in numbered : y <= x}) = i
                        IN  StartsWith(ls[k], LineNumber(i) \o <<"<", "c", "o", "d", "e", ">">>
                                                \o ShownCode(format_list[i]) \o <<"<", "/", "c", "o", "d", "e", ">">>)
                  /\ ~BrokenField => (Len(ls) = n + 4 /\ numbered = 3 .. n + 2)

\* three records were formatted, one of them without phone and service and
\* one with a line break in its service
FormatterCaseSplitWitness ==
    /\ format_out # Unset
    /\ Len(format_list) = 3
    /\ BrokenField
    /\ \E k \in 1 .. 3 : "phone" \notin DOMAIN format_list[k]
    /\ format_list[1] # format_list[2]

\* C26: two records of one extracted page have the same cache key only if
\* they have the same otp, the same phone and the same service.
FingerprintInjective ==
    page_messages # Unset =>
        \A i, j \in 1 .. Len(page_messages) :
            GenerateKey(page_messages[i]) = GenerateKey(page_messages[j]) =>
                /\ page_messages[i].otp = page_messages[j].otp
                /\ page_messages[i].phone = page_messages[j].phone
                /\ page_messages[i].service = page_messages[j].service

\* the keys of c that are past the window at minute t or have no timestamp
Stale(c, t) ==
    {k \in DOMAIN c :
        IF "timestamp" \in DOMAIN c[k] THEN t - c[k].timestamp > expire_minutes ELSE TRUE}

\* a call that looks a record up, inserts one or asks for the statistics
CacheAccess(cl) ==
    \/ cl.op \in {"is_duplicate", "get_cache_stats"}
    \/ (cl.op = "filter_new_otps" /\ cl.arg # <<>>)

PastWindow(c, k, t) == k \notin DOMAIN c \/ t - c[k].timestamp > expire_minutes

\* C23: a stored timestamp changes only when filter_new_otps returns its
\* record as novel, and is then the time of that call; a polled record is
\* returned as novel, once, exactly when its fingerprint is absent or more
\* than a window has passed since the stored timestamp.
FixedWindow ==
    [][ /\ \A k \in DOMAIN cache' :
             IF /\ call' # call
                /\ call'.op = "filter_new_otps"
                /\ \E i \in 1 .. Len(call'.result) : GenerateKey(call'.result[i]) = k
             THEN cache'[k].timestamp = now /\ PastWindow(cache, k, now)
             ELSE k \in DOMAIN cache /\ cache'[k].timestamp = cache[k].timestamp
        /\ (call' # call /\ call'.op = "filter_new_otps") =>
              \A i \in 1 .. Len(call'.arg) :
                  Occurrences(call'.arg[i], call'.result) =
                      IF PastWindow(cache, GenerateKey(call'.arg[i]), now) THEN 1 ELSE 0
      ]_vars

\* a record polled twice: judged duplicate a full window after its admit,
\* with its timestamp left alone, and returned as novel on the next poll
FixedWindowWitness ==
    /\ prev.op = "filter_new_otps"
    /\ call.op = "filter_new_otps"
    /\ prev.arg = <<RecA>>
    /\ call.arg = <<RecA>>
    /\ prev.result = <<>>
    /\ call.result = <<RecA>>
    /\ GenerateKey(RecA) \in DOMAIN prev.before
    /\ prev.at - prev.before[GenerateKey(RecA)].timestamp = expire_minutes
    /\ call.before = prev.before
    /\ cache[GenerateKey(RecA)].timestamp = call.at

\* C27: start_monitoring with the scraper or the Telegram bot missing answers
\* with an error, leaves is_running false and starts no thread; and
\* is_running is true only with both components present and a loop thread
\* started.
StartRefused ==
    /\ [](is_running => (scraper /\ telegram_bot /\ monitor_thread \in Loops))
    /\ [][(StartMonitoring /\ (~scraper \/ ~telegram_bot)) =>
            /\ reply' \in {"Error: IVASMS scraper not initialized",
                            "Error: Telegram bot not initialized"}
            /\ ~is_running'
            /\ UNCHANGED <<ctx, monitor_thread>>]_vars

\* a start was refused for the missing Telegram bot
StartRefusedWitness ==
    /\ scraper
    /\ ~telegram_bot
    /\ reply = "Error: Telegram bot not initialized"
    /\ ~is_running
    /\ monitor_thread = 0
    /\ \A t \in Loops : ctx[t].pc = "none"

\* the fingerprints of the records context c was given as novel in its
\* current cycle
NovelKeys(c) == {GenerateKey(ctx[c].new_otps[i]) : i \in 1 .. Len(ctx[c].new_otps)}

\* C24: within one window a record given to a cycle as novel is in the cache
\* from then on, before and after the send, and is novel to no other cycle:
\* whether its send succeeds, fails or is left out, no other cycle hands it
\* to the sink.
AdmitBeforeDispatch ==
    /\ \A c \in Ctx : NovelKeys(c) \subseteq DOMAIN cache
    /\ \A c1, c2 \in Ctx : c1 # c2 => NovelKeys(c1) \cap NovelKeys(c2) = {}

====
